---- MODULE Spec2Model ----
(***************************************************************************)
(* Model of the lithia front end and code generator:                       *)
(*   - the structural "satisfies" relation on types   (llvm/llvm_ast.rs)   *)
(*   - the lexer and the rendering of tokens          (compiler/tokenizer) *)
(*   - the recursive-descent parser                   (compiler/parser)    *)
(*   - the two-pass code generator                    (llvm/llvm_ast.rs)   *)
(* Each part has its own specification over the shared variable list; the  *)
(* variables of the other parts stay idle.                                 *)
(***************************************************************************)
EXTENDS Integers, Sequences, FiniteSets, TLC

VARIABLES
    \* Type::satisfies: the two types, the returned bool, the position of the call
    sat_self, sat_other, sat_result, sat_pc,
    \* tokenize: the source text, ParserIter.index, the token vector, the
    \* position (scan / ok / err), the returned error, and for the round trip
    \* the pass number and the tokens of the first pass
    tok_code, tok_index, tok_tokens, tok_pc, tok_err, tok_pass, tok_first,
    \* parse: the token vector, the number of tokens the iterator has yielded,
    \* the statements of the module-level scope, the position (scope / ok /
    \* err) and the returned error
    par_tokens, par_pos, par_stmts, par_pc, par_err,
    \* Expression::build on one expression: the expression, the generation
    \* environment (LLVMModGenEnv), the unsafe flag of the innermost scope at
    \* the call, the returned Result and the position of the call
    ex_expr, ex_env, ex_unsafe0, ex_res, ex_pc,
    \* Module::build: the module, the environment, the loop Module::build is
    \* in (consts / register / build, then ok / err / panic), the index in
    \* that loop, the returned error, and the environment and outcome of the
    \* latest Func::build call
    gen_module, gen_env, gen_pc, gen_i, gen_err, gen_before, gen_last

satVars == <<sat_self, sat_other, sat_result, sat_pc>>
tokVars == <<tok_code, tok_index, tok_tokens, tok_pc, tok_err, tok_pass, tok_first>>
parVars == <<par_tokens, par_pos, par_stmts, par_pc, par_err>>
exVars == <<ex_expr, ex_env, ex_unsafe0, ex_res, ex_pc>>
genVars == <<gen_module, gen_env, gen_pc, gen_i, gen_err, gen_before, gen_last>>
vars == <<satVars, tokVars, parVars, exVars, genVars>>

Min(a, b) == IF a < b THEN a ELSE b

(***************************************************************************)
(*                        TYPE MODEL  (enum Ty)                            *)
(***************************************************************************)
Single(generics, base) == [k |-> "Single", generics |-> generics, base |-> base]
RawPointer == [k |-> "RawPointer"]
Pointer(t) == [k |-> "Pointer", inner |-> t]
Array(t, n) == [k |-> "Array", inner |-> t, len |-> n]
Slice(t) == [k |-> "Slice", inner |-> t]
Tuple(ts) == [k |-> "Tuple", elems |-> ts]
Signature(args, ret, unsafe_fn, vararg) ==
    [k |-> "Signature", args |-> args, ret |-> ret, unsafe_fn |-> unsafe_fn, vararg |-> vararg]

\* Type::satisfies, arm by arm.  `zip` stops at the shorter sequence.
RECURSIVE satisfies(_, _)
satisfies(self, other) ==
    IF self = other THEN TRUE
    ELSE CASE self.k = "Single" /\ other.k = "Single" -> self.base = other.base
           [] self.k = "RawPointer" /\ other.k = "RawPointer" -> TRUE
           [] self.k = "Pointer" /\ other.k = "Pointer" -> satisfies(self.inner, other.inner)
           [] self.k = "Pointer" /\ other.k = "RawPointer" -> TRUE
           [] self.k = "Array" /\ other.k = "Array" ->
                satisfies(self.inner, other.inner) /\ self.len = other.len
           [] self.k = "Array" /\ other.k = "Slice" -> satisfies(self.inner, other.inner)
           [] self.k = "Slice" /\ other.k = "Slice" -> satisfies(self.inner, other.inner)
           [] self.k = "Tuple" /\ other.k = "Tuple" ->
                \A i \in 1..Min(Len(self.elems), Len(other.elems)) :
                    satisfies(self.elems[i], other.elems[i])
           [] self.k = "Signature" /\ other.k = "Signature" ->
                /\ \/ (Len(self.args) = Len(other.args) /\ self.vararg = other.vararg)
                   \/ other.vararg
                /\ \A i \in 1..Min(Len(self.args), Len(other.args)) :
                    satisfies(self.args[i], other.args[i])
                /\ satisfies(self.ret, other.ret)
                /\ (self.unsafe_fn = other.unsafe_fn \/ ~other.unsafe_fn)
           [] OTHER -> FALSE

(***************************************************************************)
(* Bounded universe of types the relation is exercised on.                 *)
(***************************************************************************)
MaxArity == 2
MaxLen == 2

U8 == Single(<<>>, "u8")
U32 == Single(<<>>, "u32")
Leaves == {U8, U32, Single(<<U32>>, "u8"), RawPointer}
ElemTypes == {U8, U32, RawPointer, Pointer(U8)}
SeqsUpTo(S, n) == UNION {[1..m -> S] : m \in 0..n}
Wrapped(S) ==
    {Pointer(t) : t \in S} \cup {Slice(t) : t \in S}
        \cup {Array(t, n) : t \in S, n \in 1..MaxLen}
Tuples == {Tuple(ts) : ts \in SeqsUpTo(ElemTypes, MaxArity)}
Signatures ==
    {Signature(as, r, u, v) : as \in SeqsUpTo({U8, Pointer(U8), RawPointer}, MaxArity - 1),
                              r \in {U8, U32}, u \in BOOLEAN, v \in BOOLEAN}
Level1 == Leaves \cup Wrapped(Leaves) \cup Tuples
Types == Level1 \cup Wrapped(Wrapped({U8, RawPointer}) \cup {Tuple(<<>>), Tuple(<<U8>>)})
            \cup Signatures

SatIdle ==
    /\ sat_self = RawPointer
    /\ sat_other = RawPointer
    /\ sat_result = FALSE
    /\ sat_pc = "idle"

SatStart ==
    /\ sat_self \in Types
    /\ sat_other \in Types
    /\ sat_result = FALSE
    /\ sat_pc = "call"

\* one call  sat_self.satisfies(&sat_other)
SatisfiesCall ==
    /\ sat_pc = "call"
    /\ sat_result' = satisfies(sat_self, sat_other)
    /\ sat_pc' = "done"
    /\ UNCHANGED <<sat_self, sat_other>>
    /\ UNCHANGED <<tokVars, parVars, exVars, genVars>>

(***************************************************************************)
(*                    LEXER  (compiler/tokenizer.rs)                       *)
(* Text is a sequence of one-character strings.  A Loc is the character    *)
(* offset (ParserIter.index); Loc.original is the same text throughout.    *)
(***************************************************************************)
Whitespace == {" ", "\n"}
AsciiDigit == {"5"}
Alphabetic == {"a"}
Alphanumeric == Alphabetic \cup AsciiDigit
BracketChars == {"[", "]", "{", "}", "<", ">", "(", ")"}

\* enum Token
EndStmt(loc) == [t |-> "EndStmt", loc |-> loc]
Ident(s, loc) == [t |-> "Ident", s |-> s, loc |-> loc]
Bracket(b, loc) == [t |-> "Bracket", b |-> b, loc |-> loc]
String(s, loc) == [t |-> "String", s |-> s, loc |-> loc]
NumberLiteral(val, ty, loc) == [t |-> "NumberLiteral", val |-> val, ty |-> ty, loc |-> loc]
Assign(loc) == [t |-> "Assign", loc |-> loc]
TypeSep(loc) == [t |-> "TypeSep", loc |-> loc]
PathSep(loc) == [t |-> "PathSep", loc |-> loc]
ArgSep(loc) == [t |-> "ArgSep", loc |-> loc]
EOF(loc) == [t |-> "EOF", loc |-> loc]

\* enum Bracket / enum Side: the bracket a character stands for
BracketOf(c) ==
    CASE c = "{" -> [kind |-> "Curly", side |-> "Open"]
      [] c = "}" -> [kind |-> "Curly", side |-> "Close"]
      [] c = "<" -> [kind |-> "Pointy", side |-> "Open"]
      [] c = ">" -> [kind |-> "Pointy", side |-> "Close"]
      [] c = "[" -> [kind |-> "Square", side |-> "Open"]
      [] c = "]" -> [kind |-> "Square", side |-> "Close"]
      [] c = "(" -> [kind |-> "Round", side |-> "Open"]
      [] c = ")" -> [kind |-> "Round", side |-> "Close"]

\* ParserIter::peek as a predicate: a next character exists
HasPeek(code, index) == index < Len(code)
Peek(code, index) == code[index + 1]

\* the index after the longest run of characters of S that starts at index
\* (the `while let Some(&c) = peek() { if c in S { next() } else { break } }` loops)
RECURSIVE RunEnd(_, _, _)
RunEnd(code, index, S) ==
    IF HasPeek(code, index) /\ Peek(code, index) \in S
    THEN RunEnd(code, index + 1, S)
    ELSE index

\* the characters consumed between two indices
Taken(code, from, to) == SubSeq(code, from + 1, to)

\* tokenize_string: the opening quote is consumed, characters are taken up to
\* the next quote, which is consumed too when there is one
tokenize_string(code, index) ==
    LET body == index + 1
        stop == RunEnd(code, body, {c \in {code[i] : i \in 1..Len(code)} : c # "\""})
    IN  [tok |-> String(Taken(code, body, stop), index),
         index |-> IF HasPeek(code, stop) THEN stop + 1 ELSE stop]

\* tokenize_ident
tokenize_ident(code, index) ==
    LET stop == RunEnd(code, index, Alphanumeric \cup {"_"})
    IN  [tok |-> Ident(Taken(code, index, stop), index), index |-> stop]

\* the first loop of tokenize_number_literal: digits and at most one '.';
\* a second '.' is consumed and reported
RECURSIVE NumberRun(_, _, _)
NumberRun(code, index, had_dot) ==
    IF ~HasPeek(code, index) THEN [index |-> index, second_dot |-> FALSE]
    ELSE IF Peek(code, index) \in AsciiDigit THEN NumberRun(code, index + 1, had_dot)
    ELSE IF Peek(code, index) = "."
         THEN IF ~had_dot THEN NumberRun(code, index + 1, TRUE)
              ELSE [index |-> index + 1, second_dot |-> TRUE]
    ELSE [index |-> index, second_dot |-> FALSE]

\* a number lexer that takes any suffix run, an empty one included (the mutant of C13)
tokenize_number_literal_any_suffix(code, index) ==
    LET run == NumberRun(code, index, FALSE)
        stop == RunEnd(code, run.index, Alphanumeric \cup {"_"})
    IN  IF run.second_dot
        THEN [ok |-> FALSE, index |-> run.index,
              err |-> [msg |-> "Encountered decimal point for a second time in this number",
                       loc |-> run.index]]
        ELSE [ok |-> TRUE, index |-> stop,
              tok |-> NumberLiteral(Taken(code, index, run.index),
                                    Taken(code, run.index, stop), index)]

\* tokenize_number_literal
tokenize_number_literal(code, index) ==
    LET run == NumberRun(code, index, FALSE)
        stop == RunEnd(code, run.index, Alphanumeric \cup {"_"})
    IN  IF run.second_dot
        THEN [ok |-> FALSE, index |-> run.index,
              err |-> [msg |-> "Encountered decimal point for a second time in this number",
                       loc |-> run.index]]
        ELSE IF ~HasPeek(code, run.index)
        THEN [ok |-> FALSE, index |-> run.index,
              err |-> [msg |-> "Expected Some token after number", loc |-> run.index]]
        ELSE IF Peek(code, run.index) \notin Alphabetic
        THEN [ok |-> FALSE, index |-> run.index,
              err |-> [msg |-> "Expected token after number to be alphabetic",
                       loc |-> run.index]]
        ELSE [ok |-> TRUE, index |-> stop,
              tok |-> NumberLiteral(Taken(code, index, run.index),
                                    Taken(code, run.index, stop), index)]

NoErr == [msg |-> "", loc |-> 0]

TokIdle ==
    /\ tok_code = <<>>
    /\ tok_index = 0
    /\ tok_tokens = <<>>
    /\ tok_pc = "idle"
    /\ tok_err = NoErr
    /\ tok_pass = 0
    /\ tok_first = <<>>

Scanning == tok_pc = "scan" /\ HasPeek(tok_code, tok_index)
Here == tok_index
Push(tok) == tok_tokens' = Append(tok_tokens, tok)
Advance == tok_index' = tok_index + 1
TokKeep == UNCHANGED <<tok_code, tok_pc, tok_err, tok_pass, tok_first>> /\ UNCHANGED <<satVars, parVars, exVars, genVars>>

\* the arms of the `while let Some(&c) = input_iter.peek()` loop of tokenize
TokWhitespace ==
    /\ Scanning /\ Peek(tok_code, tok_index) \in Whitespace
    /\ Advance /\ UNCHANGED tok_tokens /\ TokKeep

TokEndStmt ==
    /\ Scanning /\ Peek(tok_code, tok_index) = ";"
    /\ Push(EndStmt(Here)) /\ Advance /\ TokKeep

TokArgSep ==
    /\ Scanning /\ Peek(tok_code, tok_index) = ","
    /\ Push(ArgSep(Here)) /\ Advance /\ TokKeep

TokAssign ==
    /\ Scanning /\ Peek(tok_code, tok_index) = "="
    /\ Push(Assign(Here)) /\ Advance /\ TokKeep

\* a colon that never looks back (the mutant of C12)
ColonMerge_push_only(tokens, here) == Append(tokens, TypeSep(here))

\* ':' is consumed first; a TypeSep on top of the vector is replaced by a
\* PathSep with its location, otherwise a TypeSep located after the colon is pushed
ColonMerge(tokens, here) ==
    IF tokens # <<>> /\ tokens[Len(tokens)].t = "TypeSep"
    THEN Append(SubSeq(tokens, 1, Len(tokens) - 1), PathSep(tokens[Len(tokens)].loc))
    ELSE Append(tokens, TypeSep(here))

TokColon ==
    /\ Scanning /\ Peek(tok_code, tok_index) = ":"
    /\ Advance
    /\ tok_tokens' = ColonMerge(tok_tokens, tok_index + 1)
    /\ TokKeep

TokBracket ==
    /\ Scanning /\ Peek(tok_code, tok_index) \in BracketChars
    /\ Push(Bracket(BracketOf(Peek(tok_code, tok_index)), Here)) /\ Advance /\ TokKeep

TokString ==
    /\ Scanning /\ Peek(tok_code, tok_index) = "\""
    /\ LET r == tokenize_string(tok_code, tok_index)
       IN  Push(r.tok) /\ tok_index' = r.index
    /\ TokKeep

TokNumber ==
    /\ Scanning /\ Peek(tok_code, tok_index) \in AsciiDigit
    /\ LET r == tokenize_number_literal(tok_code, tok_index)
       IN  /\ tok_index' = r.index
           /\ IF r.ok
              THEN Push(r.tok) /\ UNCHANGED <<tok_pc, tok_err>>
              ELSE tok_pc' = "err" /\ tok_err' = r.err /\ UNCHANGED tok_tokens
    /\ UNCHANGED <<tok_code, tok_pass, tok_first>> /\ UNCHANGED <<satVars, parVars, exVars, genVars>>

TokIdent ==
    /\ Scanning /\ Peek(tok_code, tok_index) \in Alphabetic \cup {"_"}
    /\ LET r == tokenize_ident(tok_code, tok_index)
       IN  Push(r.tok) /\ tok_index' = r.index
    /\ TokKeep

TokUnexpected ==
    /\ Scanning
    /\ Peek(tok_code, tok_index) \notin
         Whitespace \cup {";", ",", "=", ":", "\"", "_"} \cup BracketChars
            \cup AsciiDigit \cup Alphabetic
    /\ tok_pc' = "err"
    /\ tok_err' = [msg |-> "Unexpected char", loc |-> Here]
    /\ UNCHANGED <<tok_code, tok_index, tok_tokens, tok_pass, tok_first>>
    /\ UNCHANGED <<satVars, parVars, exVars, genVars>>

\* the loop ends at the end of the text: EOF is appended and Ok(Tokens) returned
TokEOF ==
    /\ tok_pc = "scan" /\ ~HasPeek(tok_code, tok_index)
    /\ Push(EOF(Here))
    /\ tok_pc' = "ok"
    /\ UNCHANGED <<tok_code, tok_index, tok_err, tok_pass, tok_first>>
    /\ UNCHANGED <<satVars, parVars, exVars, genVars>>

\* Display for Token
RECURSIVE Flatten(_)
Flatten(ss) == IF ss = <<>> THEN <<>> ELSE Head(ss) \o Flatten(Tail(ss))

BracketText(b) ==
    CASE b.kind = "Curly" -> IF b.side = "Open" THEN <<"{">> ELSE <<"}">>
      [] b.kind = "Pointy" -> IF b.side = "Open" THEN <<"<">> ELSE <<">">>
      [] b.kind = "Square" -> IF b.side = "Open" THEN <<"[">> ELSE <<"]">>
      [] b.kind = "Round" -> IF b.side = "Open" THEN <<"(">> ELSE <<")">>

TokenText(tok) ==
    CASE tok.t = "EndStmt" -> <<";">>
      [] tok.t = "Ident" -> tok.s
      [] tok.t = "Bracket" ->
            IF tok.b.kind = "Curly" THEN BracketText(tok.b) \o <<"\n">>
            ELSE BracketText(tok.b)
      [] tok.t = "String" -> <<"\"">> \o tok.s \o <<"\"">>
      [] tok.t = "NumberLiteral" -> tok.val \o tok.ty
      [] tok.t = "Assign" -> <<"=">>
      [] tok.t = "TypeSep" -> <<":">>
      [] tok.t = "PathSep" -> <<":", ":">>
      [] tok.t = "ArgSep" -> <<",">>
      [] tok.t = "EOF" -> <<>>

\* Display for Tokens: every token followed by a blank, then
\* s.replace(";", ";\n") over the whole text
TokensText(tokens) ==
    LET s == Flatten([i \in 1..Len(tokens) |-> TokenText(tokens[i]) \o <<" ">>])
    IN  Flatten([i \in 1..Len(s) |-> IF s[i] = ";" THEN <<";", "\n">> ELSE <<s[i]>>])

\* the rendered text of a successful first pass is tokenized again
TokRerender ==
    /\ tok_pc = "ok" /\ tok_pass = 1
    /\ tok_first' = tok_tokens
    /\ tok_code' = TokensText(tok_tokens)
    /\ tok_index' = 0
    /\ tok_tokens' = <<>>
    /\ tok_pc' = "scan"
    /\ tok_pass' = 2
    /\ UNCHANGED tok_err
    /\ UNCHANGED <<satVars, parVars, exVars, genVars>>

MaxChars == 4
InputChars == {";", ",", "=", ":", "{", "\"", "5", ".", "a", " ", "#"}

TokStart ==
    /\ tok_code \in SeqsUpTo(InputChars, MaxChars)
    /\ tok_index = 0
    /\ tok_tokens = <<>>
    /\ tok_pc = "scan"
    /\ tok_err = NoErr
    /\ tok_pass = 1
    /\ tok_first = <<>>

TokNext ==
    \/ TokWhitespace \/ TokEndStmt \/ TokArgSep \/ TokAssign \/ TokColon
    \/ TokBracket \/ TokString \/ TokNumber \/ TokIdent \/ TokUnexpected
    \/ TokEOF \/ TokRerender

(***************************************************************************)
(*                    PARSER  (compiler/parser.rs)                         *)
(* The iterator over the drained token vector is the vector and the number *)
(* of tokens already yielded.  Every parse function returns                *)
(* [ok, pos, val, err]: Ok(val) or Err(err) and the iterator position.     *)
(* The text of an identifier, string or number token is one string here.   *)
(***************************************************************************)
Err(msg, loc) == [msg |-> msg, loc |-> loc]
\* From<EOT> for ParseError: ParseError::without_loc
EOT == Err("Unexpected end of tokens!", -1)
POk(pos, val) == [ok |-> TRUE, pos |-> pos, val |-> val, err |-> NoErr]
PErr(pos, err) == [ok |-> FALSE, pos |-> pos, val |-> <<>>, err |-> err]

\* enum Expr / enum Stmt as the parser builds them
ExprStmts(stmts, start) == [e |-> "Stmts", stmts |-> stmts, loc |-> start]
ExprCall(path, args, start) == [e |-> "Call", ident |-> path, args |-> args, loc |-> start]
ExprVariable(path, start) == [e |-> "Variable", ident |-> path, loc |-> start]
ExprValue(value, loc) == [e |-> "Value", value |-> value, loc |-> loc]
ExprIf(cond, body_if, body_else, start) ==
    [e |-> "If", cond |-> cond, body_if |-> body_if, body_else |-> body_else, loc |-> start]
ExprWhile(cond, body, start) == [e |-> "While", cond |-> cond, body |-> body, loc |-> start]
StmtExpr(expr, loc) == [s |-> "Expr", expr |-> expr, loc |-> loc]
StmtCreate(ident, expr, start) == [s |-> "Create", ident |-> ident, expr |-> expr, loc |-> start]

\* Peekable::peek / next
HasTok(toks, pos) == pos < Len(toks)
TokAt(toks, pos) == toks[pos + 1]
IsBracket(tok, kind, side) == tok.t = "Bracket" /\ tok.b.kind = kind /\ tok.b.side = side
IsIdent(tok, text) == tok.t = "Ident" /\ tok.s = text

\* expect_tok!(token_iter.next().ok_or(EOT)?, Token::variant)
expect_tok(toks, pos, variant) ==
    IF ~HasTok(toks, pos) THEN PErr(pos, EOT)
    ELSE IF TokAt(toks, pos).t = variant THEN POk(pos + 1, <<>>)
    ELSE PErr(pos + 1, Err("Expected " \o variant, TokAt(toks, pos).loc))

\* expect_tok_specific!(token_iter.next().ok_or(EOT)?, Token::Bracket(Bracket::Curly(side), _))
expect_curly(toks, pos, side) ==
    IF ~HasTok(toks, pos) THEN PErr(pos, EOT)
    ELSE IF IsBracket(TokAt(toks, pos), "Curly", side) THEN POk(pos + 1, <<>>)
    ELSE PErr(pos + 1, Err("Expected Curly " \o side, TokAt(toks, pos).loc))

\* expect_ident! reporting at the token before the one taken (the mutant of C6)
expect_ident_at_previous(toks, pos, ident) ==
    IF ~HasTok(toks, pos) THEN PErr(pos, EOT)
    ELSE IF IsIdent(TokAt(toks, pos), ident) THEN POk(pos + 1, <<>>)
    ELSE PErr(pos + 1, Err("Expected '" \o ident \o "'",
                           IF pos > 0 THEN toks[pos].loc ELSE TokAt(toks, pos).loc))

\* expect_ident!(token_iter.next().ok_or(EOT)?, ident): both error arms are
\* located at tok.loc(), the token that was taken from the iterator
expect_ident(toks, pos, ident) ==
    IF ~HasTok(toks, pos) THEN PErr(pos, EOT)
    ELSE IF IsIdent(TokAt(toks, pos), ident) THEN POk(pos + 1, <<>>)
    ELSE PErr(pos + 1, Err("Expected '" \o ident \o "'", TokAt(toks, pos).loc))

\* value_from_numer_literal: the suffix must be a number type and the digits
\* must parse as that type (an integer type takes no decimal point)
IntegerTypes == {"u8", "u16", "u32", "u64", "u128", "i8", "i16", "i32", "i64", "i128"}
FloatTypes == {"f32", "f64"}
IntegerTexts == {"5"}
value_from_numer_literal(tok) ==
    IF tok.ty \in FloatTypes \/ (tok.ty \in IntegerTypes /\ tok.val \in IntegerTexts)
    THEN [ok |-> TRUE, val |-> [ty |-> tok.ty, val |-> tok.val], err |-> NoErr]
    ELSE [ok |-> FALSE, val |-> <<>>,
          err |-> Err("Error while parsing number literal", tok.loc)]

\* needs_end_stmt exempting `if` alone (the mutant of C10)
needs_end_stmt_if_only(expr) == expr.e # "If"

\* let needs_end_stmt = if let Expr::While(..) | Expr::If(..) = expr { false } else { true }
needs_end_stmt(expr) == expr.e \notin {"While", "If"}

\* the closing-bracket arm taking the bracket (the mutant of C18)
close_curly_arm_consuming(pos) == POk(pos + 1, <<>>)

\* Token::Bracket(Bracket::Curly(Side::Close), _) => return Ok(Expr::Stmts(..)):
\* the bracket was peeked, `next` is not called
close_curly_arm(pos) == POk(pos, <<>>)

RECURSIVE parse_scope(_, _), scope_loop(_, _, _, _), scope_arm(_, _), parse_expr(_, _),
          parse_path(_, _), parse_var_creation(_, _, _), parse_if(_, _, _),
          parse_while(_, _, _), parse_args(_, _, _)

\* parse_path: an identifier, extended by PathSep and another path
parse_path(toks, pos) ==
    IF ~HasTok(toks, pos) THEN PErr(pos, EOT)
    ELSE LET tok == TokAt(toks, pos) IN
         IF tok.t # "Ident"
         THEN PErr(pos + 1, Err("Unexpected token, expected Ident", tok.loc))
         ELSE IF ~HasTok(toks, pos + 1) THEN PErr(pos + 1, EOT)
         ELSE IF TokAt(toks, pos + 1).t = "PathSep"
         THEN LET rest == parse_path(toks, pos + 2) IN
              IF rest.ok THEN POk(rest.pos, <<tok.s>> \o rest.val) ELSE rest
         ELSE POk(pos + 1, <<tok.s>>)

\* parse_args looking for the closing parenthesis before it parses an
\* argument (the mutant of C20)
parse_args_close_first(toks, pos, args) ==
    IF HasTok(toks, pos) /\ IsBracket(TokAt(toks, pos), "Round", "Close")
    THEN POk(pos + 1, args)
    ELSE LET arg == parse_expr(toks, pos) IN
         IF ~arg.ok THEN arg
         ELSE IF ~HasTok(toks, arg.pos) THEN PErr(arg.pos, EOT)
         ELSE IF IsBracket(TokAt(toks, arg.pos), "Round", "Close")
         THEN POk(arg.pos + 1, Append(args, arg.val))
         ELSE LET sep == expect_tok(toks, arg.pos, "ArgSep") IN
              IF ~sep.ok THEN sep ELSE parse_args(toks, sep.pos, Append(args, arg.val))

\* parse_args: one argument is parsed before the closing parenthesis is looked for
parse_args(toks, pos, args) ==
    LET arg == parse_expr(toks, pos) IN
    IF ~arg.ok THEN arg
    ELSE IF ~HasTok(toks, arg.pos) THEN PErr(arg.pos, EOT)
    ELSE IF IsBracket(TokAt(toks, arg.pos), "Round", "Close")
    THEN POk(arg.pos + 1, Append(args, arg.val))
    ELSE LET sep == expect_tok(toks, arg.pos, "ArgSep") IN
         IF ~sep.ok THEN sep ELSE parse_args(toks, sep.pos, Append(args, arg.val))

\* parse_if: if cond { scope } else { scope }
parse_if(toks, pos, start) ==
    LET kw == expect_ident(toks, pos, "if") IN
    IF ~kw.ok THEN kw ELSE
    LET cond == parse_expr(toks, kw.pos) IN
    IF ~cond.ok THEN cond ELSE
    LET open1 == expect_curly(toks, cond.pos, "Open") IN
    IF ~open1.ok THEN open1 ELSE
    LET body_if == parse_scope(toks, open1.pos) IN
    IF ~body_if.ok THEN body_if ELSE
    LET close1 == expect_curly(toks, body_if.pos, "Close") IN
    IF ~close1.ok THEN close1 ELSE
    LET else_kw == expect_ident(toks, close1.pos, "else") IN
    IF ~else_kw.ok THEN else_kw ELSE
    LET open2 == expect_curly(toks, else_kw.pos, "Open") IN
    IF ~open2.ok THEN open2 ELSE
    LET body_else == parse_scope(toks, open2.pos) IN
    IF ~body_else.ok THEN body_else ELSE
    LET close2 == expect_curly(toks, body_else.pos, "Close") IN
    IF ~close2.ok THEN close2
    ELSE POk(close2.pos, ExprIf(cond.val, body_if.val, body_else.val, start))

\* parse_while: while cond { scope          (no closing brace is taken here)
parse_while(toks, pos, start) ==
    LET kw == expect_ident(toks, pos, "while") IN
    IF ~kw.ok THEN kw ELSE
    LET cond == parse_expr(toks, kw.pos) IN
    IF ~cond.ok THEN cond ELSE
    LET open == expect_curly(toks, cond.pos, "Open") IN
    IF ~open.ok THEN open ELSE
    LET body == parse_scope(toks, open.pos) IN
    IF ~body.ok THEN body
    ELSE POk(body.pos, ExprWhile(cond.val, body.val, start))

\* parse_expr: dispatch on the peeked token
parse_expr(toks, pos) ==
    IF ~HasTok(toks, pos) THEN PErr(pos, EOT)
    ELSE LET tok == TokAt(toks, pos) IN
    CASE tok.t = "Ident" ->
            IF tok.s = "if" THEN parse_if(toks, pos, tok.loc)
            ELSE IF tok.s = "while" THEN parse_while(toks, pos, tok.loc)
            ELSE LET path == parse_path(toks, pos) IN
                 IF ~path.ok THEN path
                 ELSE IF ~HasTok(toks, path.pos) THEN PErr(path.pos, EOT)
                 ELSE IF IsBracket(TokAt(toks, path.pos), "Round", "Open")
                 THEN LET args == parse_args(toks, path.pos + 1, <<>>) IN
                      IF ~args.ok THEN args
                      ELSE POk(args.pos, ExprCall(path.val, args.val, tok.loc))
                 ELSE POk(path.pos, ExprVariable(path.val, tok.loc))
      [] tok.t = "Bracket" ->
            IF IsBracket(tok, "Curly", "Open") THEN parse_scope(toks, pos + 1)
            ELSE PErr(pos + 1, Err("Unexpected bracket variation", tok.loc))
      [] tok.t = "String" -> POk(pos + 1, ExprValue([ty |-> "String", val |-> tok.s], tok.loc))
      [] tok.t = "NumberLiteral" ->
            LET num == value_from_numer_literal(tok) IN
            IF num.ok THEN POk(pos + 1, ExprValue(num.val, tok.loc))
            ELSE PErr(pos + 1, num.err)
      [] OTHER -> PErr(pos, Err("Unexpected token", tok.loc))

\* parse_var_creation: name : type = expr ;      (`let` is already taken)
parse_var_creation(toks, pos, start) ==
    IF ~HasTok(toks, pos) THEN PErr(pos, EOT)
    ELSE LET name == TokAt(toks, pos) IN
    IF name.t # "Ident" THEN PErr(pos + 1, Err("Unexpected token, expected Ident", name.loc))
    ELSE
    LET sep == expect_tok(toks, pos + 1, "TypeSep") IN
    IF ~sep.ok THEN sep
    ELSE IF ~HasTok(toks, sep.pos) THEN PErr(sep.pos, EOT)
    ELSE IF TokAt(toks, sep.pos).t # "Ident"
    THEN PErr(sep.pos + 1, Err("Unexpected token, expected Ident", TokAt(toks, sep.pos).loc))
    ELSE
    LET assign == expect_tok(toks, sep.pos + 1, "Assign") IN
    IF ~assign.ok THEN assign ELSE
    LET expr == parse_expr(toks, assign.pos) IN
    IF ~expr.ok THEN expr ELSE
    LET end == expect_tok(toks, expr.pos, "EndStmt") IN
    IF ~end.ok THEN end
    ELSE POk(end.pos, StmtCreate(name.s, expr.val, start))

\* one turn of the `while let Some(t) = token_iter.peek()` loop of parse_scope,
\* a token being there: [ok, pos, val, err] and `more`, which says whether the
\* loop goes on (val is then the statement to push) or the scope returns
scope_arm(toks, pos) ==
    LET tok == TokAt(toks, pos)
        Stop(r) == [ok |-> r.ok, pos |-> r.pos, val |-> r.val, err |-> r.err, more |-> FALSE]
        More(r) == [ok |-> r.ok, pos |-> r.pos, val |-> r.val, err |-> r.err, more |-> r.ok]
    IN
    CASE tok.t = "Ident" /\ tok.s = "let" -> More(parse_var_creation(toks, pos + 1, tok.loc))
      [] tok.t = "Ident" /\ tok.s # "let" ->
            LET expr == parse_expr(toks, pos) IN
            IF ~expr.ok THEN Stop(expr)
            ELSE IF needs_end_stmt(expr.val)
            THEN LET end == expect_tok(toks, expr.pos, "EndStmt") IN
                 IF ~end.ok THEN Stop(end)
                 ELSE More(POk(end.pos, StmtExpr(expr.val, tok.loc)))
            ELSE More(POk(expr.pos, StmtExpr(expr.val, tok.loc)))
      [] IsBracket(tok, "Curly", "Close") -> Stop(close_curly_arm(pos))
      [] tok.t = "EOF" -> Stop(POk(pos, <<>>))
      [] OTHER -> Stop(PErr(pos, Err("Unexpected token", tok.loc)))

scope_loop(toks, pos, stmts, start) ==
    IF ~HasTok(toks, pos)
    THEN PErr(pos, Err("Unexpected end while parsing this scope", start))
    ELSE LET arm == scope_arm(toks, pos) IN
         IF ~arm.ok THEN PErr(arm.pos, arm.err)
         ELSE IF arm.more THEN scope_loop(toks, arm.pos, Append(stmts, arm.val), start)
         ELSE POk(arm.pos, ExprStmts(stmts, start))

\* parse_scope
parse_scope(toks, pos) ==
    IF ~HasTok(toks, pos) THEN PErr(pos, EOT)
    ELSE scope_loop(toks, pos, <<>>, TokAt(toks, pos).loc)

ParIdle ==
    /\ par_tokens = <<>>
    /\ par_pos = 0
    /\ par_stmts = <<>>
    /\ par_pc = "idle"
    /\ par_err = NoErr

ParKeep == UNCHANGED par_tokens /\ UNCHANGED <<satVars, tokVars, exVars, genVars>>
InScope == par_pc = "scope" /\ HasTok(par_tokens, par_pos)

\* the outcome of one turn of the module-level scope loop
ParTurn(arm) ==
    /\ par_pos' = arm.pos
    /\ IF arm.ok
       THEN /\ par_stmts' = (IF arm.more THEN Append(par_stmts, arm.val) ELSE par_stmts)
            /\ par_pc' = (IF arm.more THEN "scope" ELSE "ok")
            /\ UNCHANGED par_err
       ELSE /\ par_pc' = "err"
            /\ par_err' = arm.err
            /\ UNCHANGED par_stmts
    /\ ParKeep

\* parse -> parse_scope at module level, arm by arm
ParLet ==
    /\ InScope /\ IsIdent(TokAt(par_tokens, par_pos), "let")
    /\ ParTurn(scope_arm(par_tokens, par_pos))

ParExprStmt ==
    /\ InScope
    /\ TokAt(par_tokens, par_pos).t = "Ident" /\ TokAt(par_tokens, par_pos).s # "let"
    /\ ParTurn(scope_arm(par_tokens, par_pos))

ParCloseCurly ==
    /\ InScope /\ IsBracket(TokAt(par_tokens, par_pos), "Curly", "Close")
    /\ ParTurn(scope_arm(par_tokens, par_pos))

ParEOF ==
    /\ InScope /\ TokAt(par_tokens, par_pos).t = "EOF"
    /\ ParTurn(scope_arm(par_tokens, par_pos))

\* `tok => unexpected!(tok)?`, and the error after the loop when the iterator
\* is exhausted
ParUnexpected ==
    /\ par_pc = "scope"
    /\ IF HasTok(par_tokens, par_pos)
       THEN /\ TokAt(par_tokens, par_pos).t \notin {"Ident", "EOF"}
            /\ ~IsBracket(TokAt(par_tokens, par_pos), "Curly", "Close")
            /\ ParTurn(scope_arm(par_tokens, par_pos))
       ELSE /\ par_pc' = "err"
            /\ par_err' = Err("Unexpected end while parsing this scope", par_tokens[1].loc)
            /\ UNCHANGED <<par_pos, par_stmts>>
            /\ ParKeep

ParNext == ParLet \/ ParExprStmt \/ ParCloseCurly \/ ParEOF \/ ParUnexpected

(***************************************************************************)
(* Token vectors the parser is run on: up to MaxFrags fragments, each a    *)
(* few tokens, followed by the EOF token that tokenize always appends.     *)
(* The location of a token is its place in the vector.                     *)
(***************************************************************************)
MaxFrags == 3
KwIf == [t |-> "Ident", s |-> "if"]
KwElse == [t |-> "Ident", s |-> "else"]
KwWhile == [t |-> "Ident", s |-> "while"]
KwLet == [t |-> "Ident", s |-> "let"]
Name(n) == [t |-> "Ident", s |-> n]
Curly(side) == [t |-> "Bracket", b |-> [kind |-> "Curly", side |-> side]]
Round(side) == [t |-> "Bracket", b |-> [kind |-> "Round", side |-> side]]
Semi == [t |-> "EndStmt"]
Fragments ==
    { <<KwIf, Name("x"), Curly("Open")>>,
      <<Curly("Close")>>,
      <<Curly("Close"), KwElse, Curly("Open"), Curly("Close")>>,
      <<KwElse, Curly("Open")>>,
      <<KwWhile, Name("x"), Curly("Open")>>,
      <<Name("x")>>,
      <<Semi>>,
      <<Name("x"), Semi>>,
      <<KwLet, Name("x"), [t |-> "TypeSep"], Name("T"), [t |-> "Assign"]>>,
      <<Name("f"), Round("Open")>>,
      <<Round("Close"), Semi>>,
      <<Name("x"), [t |-> "ArgSep"]>>,
      <<[t |-> "PathSep"], Name("y")>>,
      <<[t |-> "String", s |-> "s"]>>,
      <<[t |-> "NumberLiteral", val |-> "5", ty |-> "u8"], Semi>>,
      <<Curly("Open")>> }

Located(shapes) ==
    [i \in 1..Len(shapes) |-> [f \in DOMAIN shapes[i] \cup {"loc"} |->
                                  IF f = "loc" THEN i ELSE shapes[i][f]]]
TokenVectors ==
    {Located(Flatten(fs) \o <<[t |-> "EOF"]>>) : fs \in SeqsUpTo(Fragments, MaxFrags)}

ParStart ==
    /\ par_tokens \in TokenVectors
    /\ par_pos = 0
    /\ par_stmts = <<>>
    /\ par_pc = "scope"
    /\ par_err = NoErr

(***************************************************************************)
(*                 CODE GENERATOR  (llvm/llvm_ast.rs)                      *)
(* The environment is a record: the global table, the scope stack, the     *)
(* active builder, the builders created and disposed so far, and the       *)
(* instructions emitted through the backend, in order.  Backend handles    *)
(* are symbolic records.  A Span is a number.  A lowering function returns *)
(* [st, env, val, err]: st is "ok", "err" (Err returned) or "panic"        *)
(* (unimplemented!/panic! unwinding), env the environment it leaves.       *)
(* A type nested in another one is kept without its own Span; where the    *)
(* code takes the Span of a nested type, the Span of the enclosing type    *)
(* stands for it.                                                          *)
(***************************************************************************)
Type(ty, loc) == [ty |-> ty, loc |-> loc]
Variable(ast_type, llvm_type, llvm_value) ==
    [ast_type |-> ast_type, llvm_type |-> llvm_type, llvm_value |-> llvm_value]
NoVariable == Variable(Type(Tuple(<<>>), 0), [l |-> "none"], [v |-> "none"])

\* struct Expression(tags, Expr, Span) and the variants of Expr that are lowered
Expression(tags, expr, loc) == [tags |-> tags, expr |-> expr, loc |-> loc]
Expr_Literal(lit) == [x |-> "Literal", lit |-> lit]
Expr_Point(inner) == [x |-> "Point", inner |-> inner]
Expr_Deref(inner) == [x |-> "Deref", inner |-> inner]
Expr_Variable(name, loc) == [x |-> "Variable", name |-> name, loc |-> loc]
Expr_Block(block) == [x |-> "Block", block |-> block]
Expr_FuncCall(name, loc, args) == [x |-> "FuncCall", name |-> name, loc |-> loc, args |-> args]
Expr_VarCreate(name, ty, init) == [x |-> "VarCreate", name |-> name, ty |-> ty, init |-> init]
Expr_Return(inner) == [x |-> "Return", inner |-> inner]
\* struct Block(entries, Span); an entry is (Expression, terminated, Span)
Block(entries, loc) == [entries |-> entries, loc |-> loc]
Entry(expr, terminated, loc) == [expr |-> expr, terminated |-> terminated, loc |-> loc]
\* AstLiteral(Literal::Number(NumLit::Integer(num), suffix), Span)
NumberLit(num, ty, loc) == [lit |-> "Number", num |-> num, ty |-> ty, loc |-> loc]
ArrayLit(elems, elem_ty, len, loc) ==
    [lit |-> "Array", elems |-> elems, elem_ty |-> elem_ty, len |-> len, loc |-> loc]

\* ParseET::X(..).at(loc) / .ats(locs), and e_at_add
CErr(kind, msg, locs) == [kind |-> kind, msg |-> msg, locs |-> locs]
NoCErr == CErr("", "", <<>>)
e_at_add(err, loc) == [err EXCEPT !.locs = Append(@, loc)]
GOk(env, val) == [st |-> "ok", env |-> env, val |-> val, err |-> NoCErr]
GErr(env, err) == [st |-> "err", env |-> env, val |-> NoVariable, err |-> err]
GPanic(env) == [st |-> "panic", env |-> env, val |-> NoVariable, err |-> NoCErr]
\* the process is ended by a memory fault
GFault(env) == [st |-> "fault", env |-> env, val |-> NoVariable, err |-> NoCErr]

\* backend types and values
LLVMInt(bits) == [l |-> "int", bits |-> bits]
LLVMVoid == [l |-> "void"]
LLVMPointerType(t) == [l |-> "ptr", to |-> t]
LLVMArrayType(t, n) == [l |-> "array", of |-> t, n |-> n]
PointerWidth == 64

\* Type::llvm_type: [st, val]; it never returns Err, it panics on a Single
\* with generics or an unknown base name and on a Signature
RECURSIVE llvm_type(_)
llvm_type(ty) ==
    LET ok(v) == [st |-> "ok", val |-> v]
        panic == [st |-> "panic", val |-> LLVMVoid]
    IN
    CASE ty.k = "Single" ->
            IF Len(ty.generics) > 0 THEN panic
            ELSE CASE ty.base \in {"u8", "i8"} -> ok(LLVMInt(8))
                   [] ty.base \in {"u16", "i16"} -> ok(LLVMInt(16))
                   [] ty.base \in {"u32", "i32"} -> ok(LLVMInt(32))
                   [] ty.base \in {"u64", "i64"} -> ok(LLVMInt(64))
                   [] ty.base \in {"u128", "i128"} -> ok(LLVMInt(8))
                   [] ty.base \in {"uptr", "iptr"} -> ok(LLVMInt(PointerWidth))
                   [] OTHER -> panic
      [] ty.k = "RawPointer" -> ok(LLVMPointerType(LLVMVoid))
      [] ty.k = "Pointer" -> LET r == llvm_type(ty.inner) IN
                             IF r.st = "ok" THEN ok(LLVMPointerType(r.val)) ELSE r
      [] ty.k = "Array" -> LET r == llvm_type(ty.inner) IN
                           IF r.st = "ok" THEN ok(LLVMArrayType(r.val, ty.len)) ELSE r
      [] ty.k = "Slice" -> LET r == llvm_type(ty.inner) IN
                           IF r.st = "ok" THEN ok(LLVMArrayType(r.val, 0)) ELSE r
      [] ty.k = "Tuple" ->
            IF Len(ty.elems) > 0
            THEN LET bad == {i \in 1..Len(ty.elems) : llvm_type(ty.elems[i]).st # "ok"} IN
                 IF bad = {} THEN llvm_type(ty.elems[1]) ELSE panic
            ELSE ok(LLVMVoid)
      [] ty.k = "Signature" -> panic

\* Type::satisfies_or_err
satisfies_or_err(self, other) ==
    IF satisfies(self.ty, other.ty) THEN NoCErr
    ELSE CErr("TypeError", "expected other, found self", <<self.loc, other.loc>>)

\* AstLiteral::get_type: an integer literal has its suffix type, an array
\* literal the array type of its element type and length
get_type(lit) ==
    IF lit.lit = "Number" THEN Single(<<>>, lit.ty) ELSE Array(lit.elem_ty, lit.len)

\* AstLiteral::llvm_literal: for an integer literal the type is the suffix
\* type and the constant is built from `*num as u8`; for an array literal
\* the constant is the array of the lowered elements
RECURSIVE llvm_literal(_)
llvm_literal(lit) ==
    LET ty == get_type(lit)
        lt == llvm_type(ty)
        panic == [st |-> "panic", val |-> NoVariable]
    IN  IF lt.st # "ok" THEN panic
        ELSE IF lit.lit = "Number"
        THEN [st |-> "ok",
              val |-> Variable(Type(ty, lit.loc), lt.val,
                               [v |-> "const_int", ty |-> lt.val, val |-> lit.num % 256])]
        ELSE LET et == llvm_type(lit.elem_ty)
                 elems == [i \in 1..Len(lit.elems) |-> llvm_literal(lit.elems[i])]
             IN  IF et.st # "ok" \/ \E i \in 1..Len(elems) : elems[i].st # "ok" THEN panic
                 ELSE [st |-> "ok",
                       val |-> Variable(Type(ty, lit.loc), lt.val,
                                        [v |-> "const_array", ty |-> et.val,
                                         elems |-> [i \in 1..Len(elems) |->
                                                       elems[i].val.llvm_value],
                                         len |-> lit.len])]

\* LLVMModGenEnv: the scope stack and the lookup
Scope(fn_root, unsafe_ctx) == [vars |-> << >>, fn_root |-> fn_root, unsafe_ctx |-> unsafe_ctx]
push_stack(env, fn_root, unsafe_ctx) ==
    [env EXCEPT !.stack = Append(@, Scope(fn_root, unsafe_ctx))]
pop_stack(env) == [env EXCEPT !.stack = SubSeq(@, 1, Len(@) - 1)]
Top(env) == env.stack[Len(env.stack)]
Bound(table, name) == \E i \in 1..Len(table) : table[i].name = name
\* the latest entry of a name wins (HashMap::insert replaces)
Lookup(table, name) ==
    table[CHOOSE i \in 1..Len(table) :
            table[i].name = name /\ \A j \in (i + 1)..Len(table) : table[j].name # name].var
Insert(table, name, var) == Append(table, [name |-> name, var |-> var])
get_var(env, name, loc) ==
    LET hits == {i \in 1..Len(env.stack) : Bound(env.stack[i].vars, name)} IN
    IF hits # {}
    THEN GOk(env, Lookup(env.stack[CHOOSE i \in hits : \A j \in hits : j <= i].vars, name))
    ELSE IF Bound(env.globals, name) THEN GOk(env, Lookup(env.globals, name))
    ELSE GErr(env, CErr("VariableNotFound", name, <<loc>>))

SetUnsafe(env, flag) == [env EXCEPT !.stack[Len(env.stack)].unsafe_ctx = flag]
\* an instruction built through env.builder; its value handle is its index
Emit(env, inst) ==
    [env EXCEPT !.insts = Append(@, [f \in DOMAIN inst \cup {"builder"} |->
                                        IF f = "builder" THEN env.builder ELSE inst[f]])]
LastInst(env) == [v |-> "inst", n |-> Len(env.insts)]

\* a gate that lets every call through (the mutant of C9)
UnsafeCallRefused_never(is_unsafe, env) == FALSE

\* the unsafe gate of a call: `is_unsafe && !env.stack.last().unwrap().unsafe_ctx`
UnsafeCallRefused(is_unsafe, env) == is_unsafe /\ ~Top(env).unsafe_ctx

\* the argument-count gate of a call
ArgCountRefused(sig, n_args) ==
    Len(sig.args) # n_args /\ (Len(sig.args) > n_args \/ ~sig.vararg)

\* an arm that yields a value instead of failing (the mutant of C5)
unimplemented_arm_silent(self, env) == GOk(env, NoVariable)

\* `_ => unimplemented!()`: Return, BinaryOp, UnaryOp, VarAssign and every
\* other variant without an arm of its own
unimplemented_arm(self, env) == GPanic(env)

\* the value of an expression bound once: The({body : r \in {e}}) is
\* `let r = e; body`
The(S) == CHOOSE x \in S : TRUE

RECURSIVE Expression_build(_, _), build_arm(_, _), build_args(_, _, _, _, _), Block_build(_, _),
          block_loop(_, _, _)

\* a zip that keeps every argument, the ones past the declared types paired
\* with the last declared type (the mutant of C19)
zip_every_arg(args, arg_types) ==
    IF arg_types = <<>> THEN <<>>
    ELSE [i \in 1..Len(args) |->
             [expr |-> args[i], t |-> arg_types[Min(i, Len(arg_types))]]]

\* args.iter().zip(arg_types): pairs up to the end of the shorter sequence
zip(args, arg_types) ==
    [i \in 1..Min(Len(args), Len(arg_types)) |-> [expr |-> args[i], t |-> arg_types[i]]]

\* the arguments of a call, zipped with the declared types: each is lowered
\* and checked in turn, the first failure ends the iteration
build_args(args, arg_types, i, env, values) ==
    IF i > Len(zip(args, arg_types)) THEN GOk(env, values)
    ELSE The({
         IF v.st # "ok" THEN v
         ELSE LET e == satisfies_or_err(v.val.ast_type, Type(zip(args, arg_types)[i].t, 0)) IN
              IF e # NoCErr THEN GErr(v.env, e_at_add(e, zip(args, arg_types)[i].expr.loc))
              ELSE build_args(args, arg_types, i + 1, v.env, Append(values, v.val.llvm_value))
         : v \in {Expression_build(zip(args, arg_types)[i].expr, env)}})

\* the `match &self.1` of Expression::build
build_arm(self, env) ==
    LET x == self.expr IN
    CASE x.x = "Literal" ->
            LET l == llvm_literal(x.lit) IN
            IF l.st = "ok" THEN GOk(env, l.val) ELSE GPanic(env)
      [] x.x = "Point" -> The({
            IF v.st # "ok" THEN v
            ELSE LET e1 == Emit(v.env, [op |-> "alloca", ty |-> v.val.llvm_type])
                     ptr == LastInst(e1)
                     e2 == Emit(e1, [op |-> "store", value |-> v.val.llvm_value, ptr |-> ptr])
                 IN  GOk(e2, Variable(Type(Pointer(v.val.ast_type.ty), self.loc),
                                      LLVMPointerType(v.val.llvm_type), ptr))
            : v \in {Expression_build(x.inner, env)}})
      [] x.x = "Deref" -> The({
            IF v.st # "ok" THEN v
            ELSE IF v.val.ast_type.ty.k = "RawPointer"
            THEN GErr(v.env, CErr("TypeError", "pointer, raw pointer", <<self.loc>>))
            ELSE IF v.val.ast_type.ty.k # "Pointer"
            THEN GErr(v.env, CErr("TypeError", "pointer", <<self.loc>>))
            ELSE LET inner_ty == v.val.ast_type.ty.inner
                     lt == llvm_type(inner_ty)
                 IN  IF lt.st # "ok" THEN GPanic(v.env)
                     ELSE LET e1 == Emit(v.env, [op |-> "load", ty |-> lt.val,
                                                 ptr |-> v.val.llvm_value])
                          IN  GOk(e1, Variable(Type(inner_ty, v.val.ast_type.loc), lt.val,
                                               LastInst(e1)))
            : v \in {Expression_build(x.inner, env)}})
      [] x.x = "Variable" -> get_var(env, x.name, x.loc)
      [] x.x = "Block" -> The({[st |-> b.st, env |-> b.env, val |-> b.val, err |-> b.err]
                               : b \in {Block_build(x.block, env)}})
      [] x.x = "FuncCall" -> The({
            IF var.st # "ok" THEN var
            ELSE LET sig == var.val.ast_type.ty IN
            IF sig.k # "Signature"
            THEN GErr(env, CErr("TypeError", "function", <<self.loc>>))
            ELSE IF UnsafeCallRefused(sig.unsafe_fn, env)
            THEN GErr(env, CErr("UnsafeError", "unsafe function",
                                <<var.val.ast_type.loc, x.loc>>))
            ELSE IF ArgCountRefused(sig, Len(x.args))
            THEN GErr(env, CErr("CompilationError",
                                IF sig.vararg THEN "expected n args or more"
                                ELSE "expected n args", <<self.loc>>))
            ELSE The({
                 IF args.st # "ok" THEN args
                 ELSE LET lt == llvm_type(sig.ret) IN
                      IF lt.st # "ok" THEN GPanic(args.env)
                      ELSE LET e1 == Emit(args.env, [op |-> "call",
                                                    callee |-> var.val.llvm_value,
                                                    args |-> args.val])
                           IN  GOk(e1, Variable(Type(sig.ret, var.val.ast_type.loc), lt.val,
                                                LastInst(e1)))
                 : args \in {build_args(x.args, sig.args, 1, env, <<>>)}})
            : var \in {get_var(env, x.name, x.loc)}})
      [] x.x = "VarCreate" -> The({
            IF v.st # "ok" THEN v
            ELSE GOk([v.env EXCEPT !.stack[Len(v.env.stack)].vars = Insert(@, x.name, v.val)],
                     v.val)
            : v \in {Expression_build(x.init, env)}})
      [] OTHER -> unimplemented_arm(self, env)

\* Expression::build: the flag of the innermost scope is read, raised for an
\* unsafe-tagged expression, and written back only when the match completes;
\* a `?` or `return Err` inside the match leaves the function at once
Expression_build(self, env) ==
    LET outer_unsafe == Top(env).unsafe_ctx
        env1 == IF "unsafe" \in self.tags THEN SetUnsafe(env, TRUE) ELSE env
    IN  The({IF r.st # "ok" THEN r
             ELSE IF "unsafe" \in self.tags THEN GOk(SetUnsafe(r.env, outer_unsafe), r.val)
             ELSE r
             : r \in {build_arm(self, env1)}})

\* the span where a block ends
SpanEnd(loc) == loc + 1

\* the `for (i, stmt) in self.0.iter().enumerate()` loop of Block::build:
\* val is the lowered entry that gives the result, `found` says there is one
block_loop(self, i, env) ==
    IF i > Len(self.entries)
    THEN [st |-> "ok", env |-> env, val |-> NoVariable, err |-> NoCErr,
          found |-> FALSE, loc |-> 0]
    ELSE LET stmt == self.entries[i]
             out(res, found) == [st |-> res.st, env |-> res.env, val |-> res.val,
                                 err |-> res.err, found |-> found, loc |-> stmt.loc]
         IN  The({
             IF r.st # "ok" THEN out(r, FALSE)
             ELSE IF stmt.expr.expr.x = "Return" THEN out(r, TRUE)
             ELSE IF ~stmt.terminated
             THEN IF Len(self.entries) # i
                  THEN out(GErr(r.env, CErr("CompilationError",
                                    "returning expression needs to be at end of block",
                                    <<stmt.loc>>)), FALSE)
                  ELSE out(r, TRUE)
             ELSE block_loop(self, i + 1, r.env)
             : r \in {Expression_build(stmt.expr, env)}})

\* Block::build: (Variable, Span).  The type of the result and the entry
\* swap their locations; without a result the block yields the empty tuple,
\* whose value handle is `*[].as_mut_ptr()`, a read through the pointer of an
\* empty array: undefined behaviour, which gives some handle or a memory fault
Block_build(self, env) ==
    LET ret(res, loc) == [st |-> res.st, env |-> res.env, val |-> res.val, err |-> res.err,
                          ret_loc |-> loc]
    IN  The({
        IF r.st # "ok" THEN ret(r, 0)
        ELSE IF r.found
        THEN ret(GOk(r.env, [r.val EXCEPT !.ast_type.loc = r.loc]), r.val.ast_type.loc)
        ELSE IF r.env.dangling = "fault" THEN ret(GFault(r.env), 0)
        ELSE ret(GOk(r.env, Variable(Type(Tuple(<<>>), SpanEnd(self.loc)), LLVMVoid,
                                     [v |-> "undefined"])), SpanEnd(self.loc))
        : r \in {block_loop(self, 1, env)}})

\* struct Func and struct Const
Func(name, name_loc, args, ret, tags, body, loc) ==
    [name |-> name, name_loc |-> name_loc, args |-> args, ret |-> ret, tags |-> tags,
     body |-> body, loc |-> loc]
Arg(name, ty) == [name |-> name, ty |-> ty]
NoBody == [none |-> TRUE]
Const(name, ty, val, loc) == [name |-> name, ty |-> ty, val |-> val, loc |-> loc]

\* what a read through a dangling pointer does in this run
DanglingReads == {"handle", "fault"}
WithDangling(env, d) == [env EXCEPT !.dangling = d]

\* LLVMModGenEnv before Module::build: no globals, no scope, builder 0
EmptyEnv ==
    [globals |-> <<>>, stack |-> <<>>, builder |-> 0, created |-> 0, disposed |-> {},
     insts |-> <<>>, module |-> <<>>, dangling |-> "handle"]

\* the llvm types of a list of parameters: the first failure decides
ArgTypes(args) == [i \in 1..Len(args) |-> llvm_type(args[i].ty)]
ArgTypesOk(args) == \A i \in 1..Len(args) : llvm_type(args[i].ty).st = "ok"

\* Func::register: the function is declared in the backend module and its
\* Signature is inserted in the global table
Func_register(self, env) ==
    LET ret == llvm_type(self.ret) IN
    IF ret.st # "ok" \/ ~ArgTypesOk(self.args) THEN GPanic(env)
    ELSE LET function_type == [l |-> "fn", ret |-> ret.val,
                               args |-> [i \in 1..Len(self.args) |-> ArgTypes(self.args)[i].val],
                               vararg |-> "vararg" \in self.tags]
             function == [v |-> "function", name |-> self.name]
             sig == Signature([i \in 1..Len(self.args) |-> self.args[i].ty], self.ret,
                              "unsafe" \in self.tags, "vararg" \in self.tags)
         IN  GOk([env EXCEPT !.module = Append(@, [kind |-> "function", name |-> self.name,
                                                   ty |-> function_type]),
                             !.globals = Insert(@, self.name,
                                                Variable(Type(sig, self.name_loc),
                                                         function_type, function))],
                 NoVariable)

\* the parameter loop of Func::build: every parameter is inserted in the
\* innermost scope under self.name.0, the name of the function
RECURSIVE bind_params(_, _, _)
bind_params(self, i, scope_vars) ==
    IF i > Len(self.args) THEN scope_vars
    ELSE bind_params(self, i + 1,
            Insert(scope_vars, self.name,
                   Variable(Type(self.args[i].ty, 0), llvm_type(self.args[i].ty).val,
                            [v |-> "param", function |-> self.name, i |-> i - 1])))

\* Func::build up to the body: a builder is created and made the active one,
\* a function-root scope is pushed with the function's unsafe tag
Func_enter(self, env) ==
    LET b == env.created + 1 IN
    push_stack([env EXCEPT !.created = b, !.builder = b], TRUE, "unsafe" \in self.tags)

Func_bind(self, env) ==
    [env EXCEPT !.stack[Len(env.stack)].vars = bind_params(self, 1, @)]

\* Func::build
Func_build(self, env) ==
    IF "extern" \in self.tags
    THEN IF self.body # NoBody
         THEN GErr(env, CErr("CompilationError", "extern function may not havea body",
                             <<self.name_loc>>))
         ELSE IF "unsafe" \in self.tags THEN GOk(env, NoVariable)
         ELSE GErr(env, CErr("UnsafeError", "extern function", <<self.name_loc>>))
    ELSE IF self.body = NoBody THEN GPanic(env)
    ELSE LET function == get_var(env, self.name, self.loc) IN
    IF function.st # "ok" THEN function
    ELSE LET entry_builder == env.builder IN
    IF ~ArgTypesOk(self.args) THEN GPanic(Func_enter(self, env))
    ELSE The({
    IF body.st # "ok" THEN [st |-> body.st, env |-> body.env, val |-> NoVariable,
                            err |-> body.err]
    ELSE LET env4 == pop_stack(body.env)
             e == satisfies_or_err(body.val.ast_type, Type(self.ret, 0))
         IN
    IF e # NoCErr THEN GErr(env4, e_at_add(e, body.ret_loc))
    ELSE LET env5 == Emit(env4, [op |-> "ret_void"])
         IN  GOk([env5 EXCEPT !.disposed = @ \cup {env5.builder}, !.builder = entry_builder],
                 NoVariable)
    : body \in {Block_build(self.body, env3) : env3 \in {Func_bind(self, Func_enter(self, env))}}})

\* Const::build: the declared type must be a pointer or a slice, the
\* initializer a point of a literal, whose pointer type must satisfy the
\* declared type; the backend global is added before the initializer is looked at
Const_build(self, env) ==
    LET target == IF self.ty.ty.k = "Pointer" THEN self.ty.ty.inner
                  ELSE Array(self.ty.ty.inner, 0)
    IN
    IF self.ty.ty.k \notin {"Pointer", "Slice"}
    THEN GErr(env, CErr("CompilationError", "constant can only be pointer", <<self.val.loc>>))
    ELSE LET ty == llvm_type(target) IN
    IF ty.st # "ok" THEN GPanic(env)
    ELSE LET v == [v |-> "global", name |-> self.name]
             env1 == [env EXCEPT !.module = Append(@, [kind |-> "global", name |-> self.name,
                                                       ty |-> ty.val])]
         IN
    IF ~(self.val.expr.x = "Point" /\ self.val.expr.inner.expr.x = "Literal")
    THEN GErr(env1, CErr("CompilationError",
                         "constant can only be initialized by literal pointer",
                         <<self.val.loc>>))
    ELSE LET lit == llvm_literal(self.val.expr.inner.expr.lit) IN
    IF lit.st # "ok" THEN GPanic(env1)
    ELSE LET e == satisfies_or_err(Type(Pointer(lit.val.ast_type.ty), lit.val.ast_type.loc),
                                   self.ty)
         IN
    IF e # NoCErr THEN GErr(env1, e)
    ELSE GOk([env1 EXCEPT !.globals = Insert(@, self.name, Variable(self.ty, ty.val, v))],
             NoVariable)

(***************************************************************************)
(* Expression::build is run on one expression inside the body of a         *)
(* function `host(x: u8) -> u8`, after the functions below have been       *)
(* registered; the tag of `host` gives the unsafe flag of its root scope.  *)
(***************************************************************************)
MaxArgs == 2
MaxEntries == 2

Callees ==
    << Func("safe_fn", 1, <<Arg("a", U8)>>, U8, {}, Block(<<>>, 5), 1),
       Func("unsafe_fn", 2, <<Arg("a", U8)>>, U8, {"unsafe"}, Block(<<>>, 6), 2),
       Func("va_fn", 3, <<Arg("a", U8)>>, U8, {"unsafe", "vararg", "extern"}, NoBody, 3) >>
Host(is_unsafe) ==
    Func("host", 4, <<Arg("x", U8)>>, U8, IF is_unsafe THEN {"unsafe"} ELSE {},
         Block(<<>>, 7), 4)

RECURSIVE RegisterAll(_, _, _)
RegisterAll(funcs, i, env) ==
    IF i > Len(funcs) THEN env ELSE RegisterAll(funcs, i + 1, Func_register(funcs[i], env).env)

BodyEnv(is_unsafe) ==
    LET host == Host(is_unsafe)
        env == RegisterAll(Callees \o <<host>>, 1, EmptyEnv)
    IN  Func_bind(host, Func_enter(host, env))

TagSets == {{}, {"unsafe"}}
Lit5(loc) == Expression({}, Expr_Literal(NumberLit(5, "u8", loc)), loc)
Var(name, loc) == Expression({}, Expr_Variable(name, loc), loc)
Atoms(loc) == {Lit5(loc), Var("host", loc), Var("x", loc)}
Calls(loc, tags, Args) ==
    {Expression(tags, Expr_FuncCall(name, loc + 1, args), loc) :
        name \in {"safe_fn", "unsafe_fn", "va_fn", "host", "x"},
        args \in SeqsUpTo(Args, MaxArgs)}
Plain(loc) ==
    Atoms(loc)
      \cup UNION {Calls(loc, tags, {Lit5(loc + 2), Var("x", loc + 2)}) : tags \in TagSets}
      \cup {Expression(tags, Expr_Return(Lit5(loc + 2)), loc) : tags \in TagSets}
Inner(loc) ==
    {Lit5(loc), Var("x", loc)}
      \cup {Expression(tags, Expr_FuncCall(name, loc + 1, <<arg>>), loc) :
              tags \in TagSets, name \in {"safe_fn", "unsafe_fn"},
              arg \in {Lit5(loc + 2), Var("x", loc + 2)}}
Wrapping(loc) ==
    UNION {{Expression(tags, Expr_Point(e), loc),
            Expression(tags, Expr_Deref(e), loc),
            Expression(tags, Expr_Deref(Expression({}, Expr_Point(e), loc + 5)), loc),
            Expression(tags, Expr_VarCreate("y", U8, e), loc),
            Expression(tags, Expr_FuncCall("unsafe_fn", loc + 1, <<e>>), loc),
            Expression(tags, Expr_FuncCall("safe_fn", loc + 1, <<e>>), loc)} :
           tags \in TagSets, e \in Inner(loc + 10)}
EntryExprs(loc) ==
    {Lit5(loc), Var("x", loc),
     Expression({}, Expr_Return(Lit5(loc + 2)), loc),
     Expression({"unsafe"}, Expr_FuncCall("unsafe_fn", loc + 1, <<Lit5(loc + 2)>>), loc),
     Expression({}, Expr_FuncCall("unsafe_fn", loc + 1, <<Lit5(loc + 2)>>), loc),
     Expression({}, Expr_VarCreate("y", U8, Lit5(loc + 2)), loc)}
Entries(i) == {Entry(e, t, 100 * i + 50) : e \in EntryExprs(100 * i), t \in BOOLEAN}
Blocks(loc) ==
    {Block(es, loc) :
        es \in UNION {{es \in [1..n -> UNION {Entries(i) : i \in 1..n}] :
                          \A i \in 1..n : es[i] \in Entries(i)} : n \in 0..MaxEntries}}
\* integer literals of every suffix width, with values on both sides of 2^8
IntSuffixes == {"u8", "i8", "u16", "i16", "u32", "i32", "u64", "i64", "u128", "i128"}
LitValues == {0, 5, 255, 256, 300}
IntLits(loc) ==
    {Expression({}, Expr_Literal(NumberLit(num, ty, loc)), loc) :
        num \in LitValues, ty \in IntSuffixes}
Expressions ==
    Plain(10) \cup Wrapping(10) \cup IntLits(10)
        \cup {Expression(tags, Expr_Block(b), 10) : tags \in TagSets, b \in Blocks(20)}

ExIdle ==
    /\ ex_expr = Lit5(0)
    /\ ex_env = EmptyEnv
    /\ ex_unsafe0 = FALSE
    /\ ex_res = GOk(EmptyEnv, NoVariable)
    /\ ex_pc = "idle"

ExStart ==
    /\ ex_expr \in Expressions
    /\ ex_unsafe0 \in BOOLEAN
    /\ ex_env = BodyEnv(ex_unsafe0)
    /\ ex_res = GOk(EmptyEnv, NoVariable)
    /\ ex_pc = "call"

\* one call  ex_expr.build(env, None)
ExprBuild ==
    /\ ex_pc = "call"
    /\ \E d \in DanglingReads : ex_res' = Expression_build(ex_expr, WithDangling(ex_env, d))
    /\ ex_env' = ex_res'.env
    /\ ex_pc' = "done"
    /\ UNCHANGED <<ex_expr, ex_unsafe0>>
    /\ UNCHANGED <<satVars, tokVars, parVars, genVars>>

ExNext == ExprBuild

GenIdle ==
    /\ gen_module = [constants |-> <<>>, functions |-> <<>>]
    /\ gen_env = EmptyEnv
    /\ gen_pc = "idle"
    /\ gen_i = 0
    /\ gen_err = NoCErr
    /\ gen_before = EmptyEnv
    /\ gen_last = [kind |-> "none", idx |-> 0]

(***************************************************************************)
(* Module::build, one step per loop iteration: every constant is built,    *)
(* then every function is registered, then every function is built; the    *)
(* first failure ends the build (`?`).  The maps of constants and          *)
(* functions are iterated in an order the model leaves open.               *)
(***************************************************************************)
MaxFuncs == 2
FuncNames == SubSeq(<<"f", "g", "h", "k">>, 1, MaxFuncs)
OtherName(i) == FuncNames[(i % MaxFuncs) + 1]

Call(name, args, loc) == Expression({}, Expr_FuncCall(name, loc + 1, args), loc)
TailBlock(e, loc) == Block(<<Entry(e, FALSE, loc + 8)>>, loc + 9)
Bodies(i, args) ==
    LET loc == 100 * i IN
    { TailBlock(Lit5(loc), loc),
      Block(<<Entry(Lit5(loc), TRUE, loc + 8)>>, loc + 9),
      TailBlock(Call(FuncNames[i], [j \in 1..Len(args) |-> Lit5(loc + 2)], loc), loc),
      TailBlock(Call(OtherName(i), <<Lit5(loc + 2)>>, loc), loc),
      TailBlock(Var("y", loc), loc),
      TailBlock(Var("x", loc), loc) }
FuncShapes(i) ==
    LET name == FuncNames[i]
        x == <<Arg("x", U8)>>
    IN  UNION {{Func(name, 100 * i + 1, args, U8, {}, body, 100 * i + 2) :
                      body \in Bodies(i, args)} :
                   args \in {<<>>, x, <<Arg("x", U8), Arg("z", U32)>>}}
          \cup {Func(name, 100 * i + 1, x, U8, {"extern", "unsafe"}, NoBody, 100 * i + 2),
                Func(name, 100 * i + 1, x, U8, {"extern"}, NoBody, 100 * i + 2),
                Func(name, 100 * i + 1, x, U8, {"extern", "unsafe"},
                     TailBlock(Lit5(100 * i), 100 * i), 100 * i + 2)}
FuncLists ==
    UNION {{fs \in [1..n -> UNION {FuncShapes(i) : i \in 1..MaxFuncs}] :
               \A a, b \in 1..n : a # b => fs[a].name # fs[b].name} : n \in 1..MaxFuncs}
ConstLists ==
    { <<>>,
      <<Const("c", Type(Pointer(U8), 1), Expression({}, Expr_Point(Lit5(3)), 2), 4)>>,
      <<Const("c", Type(U8, 1), Expression({}, Expr_Point(Lit5(3)), 2), 4)>> }

\* constants of every declared type against every initializer, in a module
\* with the one function `fn f() -> u8 { 5u8 }`
ConstTypes == {Pointer(U8), Pointer(U32), Pointer(Array(U8, 1)), Slice(U8), RawPointer, U8}
ConstInits ==
    LET lit(l) == Expression({}, Expr_Literal(l), 3)
        point(e) == Expression({}, Expr_Point(e), 2)
    IN  { point(lit(NumberLit(5, "u8", 3))), point(lit(NumberLit(5, "u32", 3))),
          point(lit(ArrayLit(<<NumberLit(5, "u8", 3)>>, U8, 1, 3))),
          lit(NumberLit(5, "u8", 3)), point(Var("c", 3)) }
ConstShapes == {Const("c", Type(ty, 1), init, 4) : ty \in ConstTypes, init \in ConstInits}
Modules ==
    {[constants |-> cs, functions |-> fs] : cs \in ConstLists, fs \in FuncLists}
      \cup {[constants |-> <<c>>,
              functions |-> <<Func("f", 101, <<>>, U8, {}, TailBlock(Lit5(100), 100), 102)>>] :
                c \in ConstShapes}

\* the iterations of the three loops, in the order they run
Work(module) ==
    [i \in 1..Len(module.constants) |-> [kind |-> "const", idx |-> i]]
      \o [i \in 1..Len(module.functions) |-> [kind |-> "register", idx |-> i]]
      \o [i \in 1..Len(module.functions) |-> [kind |-> "build", idx |-> i]]

GenStart ==
    /\ gen_module \in Modules
    /\ gen_env = EmptyEnv
    /\ gen_pc = "run"
    /\ gen_i = 1
    /\ gen_err = NoCErr
    /\ gen_before = EmptyEnv
    /\ gen_last = [kind |-> "none", idx |-> 0]

GenAt(kind) ==
    /\ gen_pc = "run"
    /\ gen_i <= Len(Work(gen_module))
    /\ Work(gen_module)[gen_i].kind = kind

\* one iteration: `x.build(env)?` or `func.register(env)?`
GenTurn(r) ==
    /\ gen_before' = gen_env
    /\ gen_last' = Work(gen_module)[gen_i]
    /\ gen_env' = r.env
    /\ gen_err' = r.err
    /\ gen_pc' = CASE r.st = "ok" -> "run" [] r.st = "err" -> "failed" [] OTHER -> "panicked"
    /\ gen_i' = IF r.st = "ok" THEN gen_i + 1 ELSE gen_i
    /\ UNCHANGED gen_module
    /\ UNCHANGED <<satVars, tokVars, parVars, exVars>>

GenConstBuild ==
    /\ GenAt("const")
    /\ \E r \in {Const_build(gen_module.constants[Work(gen_module)[gen_i].idx], gen_env)} : GenTurn(r)

GenFuncRegister ==
    /\ GenAt("register")
    /\ \E r \in {Func_register(gen_module.functions[Work(gen_module)[gen_i].idx], gen_env)} : GenTurn(r)

GenFuncBuild ==
    /\ GenAt("build")
    /\ \E d \in DanglingReads :
          \E r \in {Func_build(gen_module.functions[Work(gen_module)[gen_i].idx],
                                WithDangling(gen_env, d))} : GenTurn(r)

\* `Ok(())` after the last loop
GenFinish ==
    /\ gen_pc = "run"
    /\ gen_i > Len(Work(gen_module))
    /\ gen_pc' = "done"
    /\ UNCHANGED <<gen_module, gen_env, gen_i, gen_err, gen_before, gen_last>>
    /\ UNCHANGED <<satVars, tokVars, parVars, exVars>>

GenNext == GenConstBuild \/ GenFuncRegister \/ GenFuncBuild \/ GenFinish

(***************************************************************************)
(*                          SPECIFICATIONS                                 *)
(***************************************************************************)
SatInit == SatStart /\ TokIdle /\ ParIdle /\ ExIdle /\ GenIdle
SatNext == SatisfiesCall
SpecSat == SatInit /\ [][SatNext]_vars

TokInit == TokStart /\ SatIdle /\ ParIdle /\ ExIdle /\ GenIdle
SpecTok == TokInit /\ [][TokNext]_vars

ParInit == ParStart /\ SatIdle /\ TokIdle /\ ExIdle /\ GenIdle
SpecParse == ParInit /\ [][ParNext]_vars

ExInit == ExStart /\ SatIdle /\ TokIdle /\ ParIdle /\ GenIdle
SpecExpr == ExInit /\ [][ExNext]_vars

GenInit == GenStart /\ SatIdle /\ TokIdle /\ ParIdle /\ ExIdle
SpecGen == GenInit /\ [][GenNext]_vars

(***************************************************************************)
(* The table of section 4.3 of the specification, row by row (the          *)
(* reference the relation is compared with; it is not code).               *)
(***************************************************************************)
RECURSIVE TableSatisfies(_, _)
TableSatisfies(a, b) ==
    IF a = b THEN TRUE
    ELSE CASE a.k = "Single" /\ b.k = "Single" -> a.base = b.base
           [] a.k = "RawPointer" /\ b.k = "RawPointer" -> TRUE
           [] a.k = "Pointer" /\ b.k = "Pointer" -> TableSatisfies(a.inner, b.inner)
           [] a.k = "Pointer" /\ b.k = "RawPointer" -> TRUE
           [] a.k = "RawPointer" /\ b.k = "Pointer" -> FALSE
           [] a.k = "Array" /\ b.k = "Array" ->
                TableSatisfies(a.inner, b.inner) /\ a.len = b.len
           [] a.k = "Array" /\ b.k = "Slice" -> TableSatisfies(a.inner, b.inner)
           [] a.k = "Slice" /\ b.k = "Slice" -> TableSatisfies(a.inner, b.inner)
           [] a.k = "Tuple" /\ b.k = "Tuple" ->
                /\ Len(a.elems) = Len(b.elems)
                /\ \A i \in 1..Len(a.elems) : TableSatisfies(a.elems[i], b.elems[i])
           [] a.k = "Signature" /\ b.k = "Signature" ->
                /\ \/ (Len(a.args) = Len(b.args) /\ a.vararg = b.vararg)
                   \/ b.vararg
                /\ \A i \in 1..Min(Len(a.args), Len(b.args)) :
                    TableSatisfies(a.args[i], b.args[i])
                /\ TableSatisfies(a.ret, b.ret)
                /\ (a.unsafe_fn = b.unsafe_fn \/ ~b.unsafe_fn)
           [] OTHER -> FALSE

\* C1: for every pair of types of the bounded universe, satisfies returns
\* exactly what the table of section 4.3 prescribes (Tuple needs the same
\* arity and element-wise satisfaction, every other row as written).
C1_SatisfiesMatchesTable ==
    sat_pc = "done" => sat_result = TableSatisfies(sat_self, sat_other)

\* C2: satisfies returns false whenever self and other are Tuples with a
\* different number of elements or Signatures with a different number of
\* parameter types.
C2_UnmatchedArityIsFalse ==
    (/\ sat_pc = "done"
     /\ \/ /\ sat_self.k = "Tuple" /\ sat_other.k = "Tuple"
           /\ Len(sat_self.elems) # Len(sat_other.elems)
        \/ /\ sat_self.k = "Signature" /\ sat_other.k = "Signature"
           /\ Len(sat_self.args) # Len(sat_other.args))
        => sat_result = FALSE

\* a token without its location
Unlocated(tok) == [f \in DOMAIN tok \ {"loc"} |-> tok[f]]
Payloads(tokens) == [i \in 1..Len(tokens) |-> Unlocated(tokens[i])]

\* C7: tokenizing, rendering the tokens with Display and tokenizing the
\* rendered text again yields the same token sequence (variants and payloads
\* in order, locations ignored), also for string literals that contain ';'.
C7_RoundTrip ==
    (tok_pass = 2 /\ tok_pc \in {"ok", "err"}) =>
        (tok_pc = "ok" /\ Payloads(tok_tokens) = Payloads(tok_first))

\* C6 as stated: the "Expected 'else'" diagnostic is located at the `if`
\* token, which precedes the token found in place of `else`.
C6_ElseErrorAtIfToken ==
    (par_pc = "err" /\ par_err.msg = "Expected 'else'") =>
        (par_err.loc < par_pos /\ IsIdent(par_tokens[par_err.loc], "if"))

\* C6 amended: an `if` whose first block is not followed by `else` fails with
\* an "Expected 'else'" diagnostic located at the token found in place of
\* `else` (the token after the closing brace of the first block).
C6_ElseErrorAtFoundToken ==
    /\ (par_pc = "err" /\ par_err.msg = "Expected 'else'") =>
          /\ par_err.loc = par_tokens[par_pos].loc
          /\ ~IsIdent(par_tokens[par_pos], "else")
          /\ IsBracket(par_tokens[par_pos - 1], "Curly", "Close")
    /\ (/\ par_pc # "scope" /\ Len(par_tokens) >= 5
        /\ IsIdent(par_tokens[1], "if") /\ IsIdent(par_tokens[2], "x")
        /\ IsBracket(par_tokens[3], "Curly", "Open")
        /\ IsBracket(par_tokens[4], "Curly", "Close")
        /\ ~IsIdent(par_tokens[5], "else"))
          => (par_pc = "err" /\ par_err = Err("Expected 'else'", par_tokens[5].loc))

C6_Witness ==
    /\ par_pc = "err" /\ par_err.msg = "Expected 'else'"
    /\ IsIdent(par_tokens[1], "if") /\ par_err.loc = 5

\* C10: in a scope an expression statement that parses as `if` or `while` is
\* accepted with no statement terminator taken after it; any other
\* expression statement is accepted only when an EndStmt token follows it
\* immediately, and otherwise parsing fails.
C10_TerminatorRule ==
    [][(/\ par_pc = "scope" /\ HasTok(par_tokens, par_pos)
        /\ TokAt(par_tokens, par_pos).t = "Ident"
        /\ TokAt(par_tokens, par_pos).s # "let") =>
          LET expr == parse_expr(par_tokens, par_pos)
              pushed == Append(par_stmts, StmtExpr(expr.val, TokAt(par_tokens, par_pos).loc))
          IN  expr.ok =>
                IF expr.val.e \in {"If", "While"}
                THEN par_pc' = "scope" /\ par_pos' = expr.pos /\ par_stmts' = pushed
                ELSE IF HasTok(par_tokens, expr.pos)
                        /\ TokAt(par_tokens, expr.pos).t = "EndStmt"
                     THEN par_pc' = "scope" /\ par_pos' = expr.pos + 1
                          /\ par_stmts' = pushed
                     ELSE par_pc' = "err"]_vars

C10_Witness ==
    /\ par_pc = "scope" /\ Len(par_stmts) = 2
    /\ par_stmts[1].s = "Expr" /\ par_stmts[1].expr.e = "If"
    /\ par_stmts[2].s = "Expr" /\ par_stmts[2].expr.e = "Variable"
    /\ par_tokens[par_pos].t = "EndStmt"

\* C3: for every expression tagged unsafe, the unsafe flag of the innermost
\* scope after Expression::build has returned (Ok or Err) equals its value
\* before the call.
C3_UnsafeFlagRestored ==
    (ex_pc = "done" /\ "unsafe" \in ex_expr.tags /\ ex_res.st \in {"ok", "err"}) =>
        Top(ex_env).unsafe_ctx = ex_unsafe0

\* a block whose first `return` entry is followed by further entries, the
\* entries before it being terminated literals
ReturnThenMore(block) ==
    \E i \in 1..(Len(block.entries) - 1) :
        /\ block.entries[i].expr.expr.x = "Return"
        /\ \A j \in 1..(i - 1) : /\ block.entries[j].expr.expr.x = "Literal"
                                 /\ block.entries[j].terminated
EndOfBlockError(res) ==
    /\ res.st = "err" /\ res.err.kind = "CompilationError"
    /\ res.err.msg = "returning expression needs to be at end of block"

C9_UnsafeGate ==
    /\ (ex_pc = "done" /\ ex_expr.expr.x = "FuncCall") =>
          \A i \in 1..Len(Callees) :
            (Callees[i].name = ex_expr.expr.name /\ "unsafe" \in Callees[i].tags) =>
                IF ~ex_unsafe0 /\ "unsafe" \notin ex_expr.tags
                THEN /\ ex_res.st = "err" /\ ex_res.err.kind = "UnsafeError"
                     /\ ex_res.err.locs = <<Callees[i].name_loc, ex_expr.expr.loc>>
                     /\ ex_env.insts = <<>>
                ELSE ex_res.err.kind # "UnsafeError"
    /\ (ex_pc = "done" /\ ex_unsafe0) => ex_res.err.kind # "UnsafeError"

C9_Witness ==
    /\ ex_pc = "done" /\ ~ex_unsafe0
    /\ ex_expr.expr.x = "FuncCall" /\ ex_expr.expr.name = "unsafe_fn" /\ ex_expr.tags = {}
    /\ Len(ex_expr.expr.args) = 1
    /\ ex_res.err = CErr("UnsafeError", "unsafe function", <<2, ex_expr.expr.loc>>)

\* the function whose build was the last step, and the environment in which
\* its body is lowered
LastFunc == gen_module.functions[gen_last.idx]
Returned == gen_pc \in {"run", "failed", "done"}

\* C4: after Func::build of a non-extern function has returned (Ok or Err)
\* the scope stack has the depth it had before the call, the builder created
\* for the body is disposed, and env.builder is the builder active before.
C4_BuildReleasesScopeAndBuilder ==
    (gen_last.kind = "build" /\ Returned /\ "extern" \notin LastFunc.tags) =>
        /\ Len(gen_env.stack) = Len(gen_before.stack)
        /\ \A b \in (gen_before.created + 1)..gen_env.created : b \in gen_env.disposed
        /\ gen_env.builder = gen_before.builder

\* the ordering of Module::build: a function is registered only after every
\* constant is in the global table, a function is built only after every
\* function is, and nothing of a body exists before the build loop
BuildOrder ==
    /\ gen_last.kind = "register" =>
          \A i \in 1..Len(gen_module.constants) :
              Bound(gen_before.globals, gen_module.constants[i].name)
    /\ gen_last.kind = "build" =>
          \A i \in 1..Len(gen_module.functions) :
              /\ Bound(gen_before.globals, gen_module.functions[i].name)
              /\ Lookup(gen_before.globals, gen_module.functions[i].name).ast_type.ty.k
                    = "Signature"
    /\ gen_last.kind \in {"none", "const", "register"} =>
          gen_env.insts = <<>> /\ gen_env.created = 0 /\ gen_env.stack = <<>>

\* C8: no body is lowered before every function is registered and no
\* function is registered before every constant is built; hence inside a
\* body the name of every function of the module, the function itself
\* included, resolves to a registered Signature.
C8_BodiesSeeEverySignature ==
    /\ BuildOrder
    /\ (gen_last.kind = "build" /\ "extern" \notin LastFunc.tags) =>
          \A i \in 1..Len(gen_module.functions) :
              LET seen == get_var(Func_bind(LastFunc, Func_enter(LastFunc, gen_before)),
                                  gen_module.functions[i].name, 0)
              IN  seen.st = "ok" /\ seen.val.ast_type.ty.k = "Signature"

\* the constant whose build was the last step
LastConst == gen_module.constants[gen_last.idx]
IsLiteralPoint(c) == c.val.expr.x = "Point" /\ c.val.expr.inner.expr.x = "Literal"
\* the initializer is a point of a literal of the declared target type
MatchingInit(c) ==
    /\ IsLiteralPoint(c)
    /\ \/ c.ty.ty.k = "Pointer" /\ get_type(c.val.expr.inner.expr.lit) = c.ty.ty.inner
       \/ /\ c.ty.ty.k = "Slice"
          /\ c.val.expr.inner.expr.lit.lit = "Array"
          /\ c.val.expr.inner.expr.lit.elem_ty = c.ty.ty.inner

\* C11: Const::build fails with a compilation error when the declared type is
\* neither Pointer nor Slice or the initializer is not a point of a literal;
\* for Pointer(T) or Slice(T) with a point of a literal of the matching type
\* it succeeds and the name is in the global table under the declared type;
\* an error adds no entry to the global table.
C11_ConstBuild ==
    gen_last.kind = "const" =>
        /\ (LastConst.ty.ty.k \notin {"Pointer", "Slice"} \/ ~IsLiteralPoint(LastConst)) =>
              gen_pc = "failed" /\ gen_err.kind = "CompilationError"
        /\ MatchingInit(LastConst) =>
              /\ gen_pc \in {"run", "done"}
              /\ Bound(gen_env.globals, LastConst.name)
              /\ Lookup(gen_env.globals, LastConst.name).ast_type = LastConst.ty
        /\ gen_pc = "failed" => gen_env.globals = gen_before.globals

\* the variants of a token sequence, and the number of colons of a text
Kinds(tokens) == [i \in 1..Len(tokens) |-> tokens[i].t]
Colons(code) == Cardinality({i \in 1..Len(code) : code[i] = ":"})
Repeat(kind, n) == [i \in 1..n |-> kind]

\* C12: no two TypeSep tokens are adjacent in the token vector; a text of
\* colons, possibly separated by whitespace, gives one PathSep for every two
\* colons and a TypeSep for an odd last one (`::` is PathSep, `:::` is
\* PathSep TypeSep, `: :` is PathSep).
C12_NoAdjacentTypeSep ==
    /\ \A i \in 1..(Len(tok_tokens) - 1) :
          ~(tok_tokens[i].t = "TypeSep" /\ tok_tokens[i + 1].t = "TypeSep")
    /\ (tok_pc = "ok" /\ tok_pass = 1 /\ \A i \in 1..Len(tok_code) : tok_code[i] \in {":", " "}) =>
          Kinds(tok_tokens) = Repeat("PathSep", Colons(tok_code) \div 2)
                                \o Repeat("TypeSep", Colons(tok_code) % 2) \o <<"EOF">>

C12_Witness ==
    /\ tok_pc = "ok" /\ tok_pass = 1
    /\ tok_code = <<":", " ", ":", ":">>
    /\ Kinds(tok_tokens) = <<"PathSep", "TypeSep", "EOF">>

\* the longest prefix of digits with at most one decimal point, and the
\* longest run of suffix characters after it
NumPrefix(code) ==
    LET fits(n) == /\ \A i \in 1..n : code[i] \in AsciiDigit \cup {"."}
                   /\ Cardinality({i \in 1..n : code[i] = "."}) <= 1
    IN  CHOOSE n \in 0..Len(code) : fits(n) /\ \A k \in (n + 1)..Len(code) : ~fits(k)
SuffixEnd(code) ==
    LET fits(m) == \A i \in (NumPrefix(code) + 1)..m : code[i] \in Alphanumeric \cup {"_"}
    IN  CHOOSE m \in NumPrefix(code)..Len(code) :
            fits(m) /\ \A k \in (m + 1)..Len(code) : ~fits(k)
\* a second decimal point, the end of the text, or a character that is not
\* alphabetic follows the digits
BadNumber(code) ==
    \/ NumPrefix(code) = Len(code)
    \/ code[NumPrefix(code) + 1] \notin Alphabetic

\* C13: for a text that starts with an ASCII digit, tokenize takes the digits
\* with at most one decimal point and the alphabetic-led suffix run and emits
\* exactly one NumberLiteral(digit text, suffix text) for them; a second
\* decimal point, the end of the text or a non-alphabetic character after the
\* digits gives an error and no tokens.
C13_NumberLiteral ==
    (tok_pass = 1 /\ tok_code # <<>> /\ tok_code[1] \in AsciiDigit) =>
        IF BadNumber(tok_code)
        THEN /\ tok_pc \in {"scan", "err"}
             /\ tok_tokens = <<>>
             /\ tok_pc = "scan" => tok_index = 0
        ELSE /\ tok_pc # "err" => tok_index = 0 \/ tok_index >= SuffixEnd(tok_code)
             /\ (tok_index > 0 /\ tok_pc # "err") =>
                   /\ Len(tok_tokens) >= 1
                   /\ tok_tokens[1] =
                        NumberLiteral(SubSeq(tok_code, 1, NumPrefix(tok_code)),
                                      SubSeq(tok_code, NumPrefix(tok_code) + 1,
                                             SuffixEnd(tok_code)), 0)
             /\ (tok_index = SuffixEnd(tok_code) /\ tok_pc = "scan") => Len(tok_tokens) = 1
             /\ tok_index = 0 => tok_tokens = <<>>

C13_Witness ==
    /\ tok_pass = 1 /\ tok_pc = "ok"
    /\ tok_code = <<"5", ".", "5", "a">>
    /\ Payloads(tok_tokens) =
          <<Unlocated(NumberLiteral(<<"5", ".", "5">>, <<"a">>, 0)), Unlocated(EOF(0))>>

\* the module-level scope loop has just pushed a `while` statement
WhileJustParsed ==
    /\ par_pc = "scope" /\ par_stmts # <<>>
    /\ par_stmts[Len(par_stmts)].s = "Expr"
    /\ par_stmts[Len(par_stmts)].expr.e = "While"

\* C14: after a `while cond { body }` statement has been parsed the closing
\* curly bracket of its body is consumed (a closing bracket met where the
\* body ends is not the next token unless the last token taken is one too),
\* so the parse of a text with a module-level `while` that ends in success
\* has read every statement up to the end-of-file token.
C14_WhileConsumesClosingBrace ==
    /\ (WhileJustParsed /\ IsBracket(TokAt(par_tokens, par_pos), "Curly", "Close")) =>
          IsBracket(par_tokens[par_pos], "Curly", "Close")
    /\ (par_pc = "ok" /\ \E i \in 1..Len(par_stmts) :
                            par_stmts[i].s = "Expr" /\ par_stmts[i].expr.e = "While") =>
          TokAt(par_tokens, par_pos).t = "EOF"

\* the function-root scope in which the body of the last built function is lowered
RootScope == Top(Func_bind(LastFunc, Func_enter(LastFunc, gen_before)))

\* C15: while the body of a non-extern function is lowered, every declared
\* parameter name resolves in the function-root scope to a Variable of the
\* parameter's declared type whose value is the backend parameter at its
\* position, and n distinct parameter names give n bindings.
C15_ParametersBound ==
    (gen_last.kind = "build" /\ "extern" \notin LastFunc.tags) =>
        /\ \A i \in 1..Len(LastFunc.args) :
              /\ Bound(RootScope.vars, LastFunc.args[i].name)
              /\ Lookup(RootScope.vars, LastFunc.args[i].name).ast_type.ty = LastFunc.args[i].ty
              /\ Lookup(RootScope.vars, LastFunc.args[i].name).llvm_value
                    = [v |-> "param", function |-> LastFunc.name, i |-> i - 1]
        /\ Cardinality({RootScope.vars[k].name : k \in 1..Len(RootScope.vars)})
              = Cardinality({LastFunc.args[i].name : i \in 1..Len(LastFunc.args)})

\* a block none of whose entries is a `return` or an unterminated expression,
\* every entry being a terminated literal or variable that lowers
NoResultEntry(block) ==
    \A i \in 1..Len(block.entries) :
        /\ block.entries[i].terminated
        /\ block.entries[i].expr.expr.x \in {"Literal", "Variable"}
        /\ block.entries[i].expr.expr.x = "Variable" => block.entries[i].expr.expr.name = "x"
\* a block whose first entry is an unterminated literal that is not the last
TailThenMore(block) ==
    /\ Len(block.entries) > 1
    /\ ~block.entries[1].terminated
    /\ block.entries[1].expr.expr.x = "Literal"

C16_TailMustBeLast ==
    (ex_pc = "done" /\ ex_expr.expr.x = "Block" /\ TailThenMore(ex_expr.expr.block)) =>
        EndOfBlockError(ex_res)

\* the number of bits an integer suffix declares
SuffixBits(base) ==
    CASE base \in {"u8", "i8"} -> 8
      [] base \in {"u16", "i16"} -> 16
      [] base \in {"u32", "i32"} -> 32
      [] base \in {"u64", "i64"} -> 64
      [] base \in {"u128", "i128"} -> 128
\* the value is one the suffix type can hold (every value of LitValues is
\* below 2^16)
FitsSuffix(num, base) == SuffixBits(base) = 8 => num < 256
IntLitBuilt ==
    /\ ex_pc = "done" /\ ex_expr.expr.x = "Literal"
    /\ ex_expr.expr.lit.lit = "Number" /\ ex_expr.expr.lit.ty \in IntSuffixes
    /\ FitsSuffix(ex_expr.expr.lit.num, ex_expr.expr.lit.ty)

\* C17: lowering an integer literal yields a constant whose backend type has
\* the number of bits its suffix declares (8, 16, 32, 64, 128) and whose
\* value is the value of the literal.
C17_LiteralWidthAndValue ==
    IntLitBuilt =>
        /\ ex_res.st = "ok"
        /\ ex_res.val.llvm_type = LLVMInt(SuffixBits(ex_expr.expr.lit.ty))
        /\ ex_res.val.llvm_value.ty = LLVMInt(SuffixBits(ex_expr.expr.lit.ty))
        /\ ex_res.val.llvm_value.val = ex_expr.expr.lit.num
\* the width half of C17 alone
C17_Width ==
    IntLitBuilt => ex_res.val.llvm_type = LLVMInt(SuffixBits(ex_expr.expr.lit.ty))
\* the value half of C17 alone
C17_Value ==
    IntLitBuilt => ex_res.val.llvm_value.val = ex_expr.expr.lit.num

\* the tokens before position pos, the text ending where the token at pos stands
CutAt(toks, pos) == SubSeq(toks, 1, pos) \o <<[t |-> "EOF", loc |-> TokAt(toks, pos).loc]>>
AtCloseCurly(toks, pos) == HasTok(toks, pos) /\ IsBracket(TokAt(toks, pos), "Curly", "Close")

\* C18: wherever a closing curly bracket stands, parse_scope started on it
\* returns the empty scope and leaves the bracket in place; at module level
\* the turn of the loop that meets one ends the parse in success with the
\* position and the statements as they are, and those statements are the
\* ones the parse of the tokens before the bracket gives.
C18_UnmatchedCloseCurly ==
    /\ [](\A p \in 0..(Len(par_tokens) - 1) :
            AtCloseCurly(par_tokens, p) =>
                parse_scope(par_tokens, p)
                    = POk(p, ExprStmts(<<>>, TokAt(par_tokens, p).loc)))
    /\ []((par_pc = "ok" /\ AtCloseCurly(par_tokens, par_pos)) =>
            \E r \in {parse_scope(CutAt(par_tokens, par_pos), 0)} :
                r.ok /\ r.val.stmts = par_stmts)
    /\ [][(InScope /\ AtCloseCurly(par_tokens, par_pos)) =>
            (par_pc' = "ok" /\ par_pos' = par_pos /\ par_stmts' = par_stmts)]_vars

\* a parse that ended in success at a closing bracket, with a statement
\* before it and tokens other than the end-of-file token after it
C18_Witness ==
    /\ par_pc = "ok" /\ AtCloseCurly(par_tokens, par_pos)
    /\ par_stmts # <<>>
    /\ par_pos + 2 < Len(par_tokens)

\* a call that passed the unsafe gate to va_fn, which is variadic and declares
\* one argument, with more arguments than that
VarargCallWithExtra ==
    /\ ex_pc = "done" /\ ex_expr.expr.x = "FuncCall" /\ ex_expr.expr.name = "va_fn"
    /\ Len(ex_expr.expr.args) > Len(Callees[3].args)
    /\ ("unsafe" \in ex_expr.tags \/ Top(BodyEnv(ex_unsafe0)).unsafe_ctx)

\* C19: of the arguments of such a call only the declared number is lowered:
\* the outcome is that of the first argument alone (a literal lowers, the
\* unbound name fails) whatever the further arguments are, and the call is
\* the only instruction emitted, with exactly the declared number of argument
\* values, the lowered first argument.
C19_ExtraArgsDropped ==
    VarargCallWithExtra =>
        IF ex_expr.expr.args[1].expr.x = "Literal"
        THEN /\ ex_res.st = "ok"
             /\ Len(ex_env.insts) = 1
             /\ ex_env.insts[1].op = "call"
             /\ Len(ex_env.insts[1].args) = Len(Callees[3].args)
             /\ ex_env.insts[1].args[1] = llvm_literal(ex_expr.expr.args[1].expr.lit).val.llvm_value
        ELSE /\ ex_res.st = "err"
             /\ ex_env.insts = <<>>

\* the call va_fn(5u8, x): the second argument names nothing, and the call lowers
C19_Witness ==
    /\ VarargCallWithExtra
    /\ Len(ex_expr.expr.args) = Len(Callees[3].args) + 1
    /\ ex_expr.expr.args[1].expr.x = "Literal"
    /\ ex_expr.expr.args[2].expr.x = "Variable"
    /\ ex_res.st = "ok"

\* every Call node of a parsed expression, or of a parsed statement, has an argument
RECURSIVE CallsHaveArgs(_)
CallsHaveArgs(node) ==
    IF "s" \in DOMAIN node THEN CallsHaveArgs(node.expr)
    ELSE CASE node.e = "Call" ->
                /\ Len(node.args) >= 1
                /\ \A i \in 1..Len(node.args) : CallsHaveArgs(node.args[i])
           [] node.e = "Stmts" -> \A i \in 1..Len(node.stmts) : CallsHaveArgs(node.stmts[i])
           [] node.e = "If" -> /\ CallsHaveArgs(node.cond)
                               /\ CallsHaveArgs(node.body_if)
                               /\ CallsHaveArgs(node.body_else)
           [] node.e = "While" -> CallsHaveArgs(node.cond) /\ CallsHaveArgs(node.body)
           [] OTHER -> TRUE
\* a name, an opening and a closing parenthesis stand at positions p, p + 1, p + 2
EmptyCallAt(toks, p) ==
    /\ HasTok(toks, p + 2)
    /\ TokAt(toks, p).t = "Ident"
    /\ IsBracket(TokAt(toks, p + 1), "Round", "Open")
    /\ IsBracket(TokAt(toks, p + 2), "Round", "Close")

\* C20: every Call node among the statements parsed so far has at least one
\* argument, the turn of the module-level loop that starts on a call with an
\* empty argument list ends the parse with an error, and a parse that ended
\* in success has taken no such call.
C20_CallHasArgument ==
    /\ [](\A i \in 1..Len(par_stmts) : CallsHaveArgs(par_stmts[i]))
    /\ [](par_pc = "ok" => \A p \in 0..(par_pos - 3) : ~EmptyCallAt(par_tokens, p))
    /\ [][(InScope /\ EmptyCallAt(par_tokens, par_pos)) => par_pc' = "err"]_vars

\* a parse that stopped with an error on the closing parenthesis of `f ( )`,
\* a statement having been parsed before it
C20_Witness ==
    /\ par_pc = "err" /\ par_pos >= 3
    /\ EmptyCallAt(par_tokens, par_pos - 3)
    /\ par_stmts # <<>>
\* a parse that ended in success with a call statement
C20_CallParsed ==
    /\ par_pc = "ok"
    /\ \E i \in 1..Len(par_stmts) : par_stmts[i].s = "Expr" /\ par_stmts[i].expr.e = "Call"
====
